---- MODULE Spec2Model ----
(***************************************************************************)
(* Zenda PoC (src/main.py): the point-based credit scoring function         *)
(* calculate_credit_score and the Streamlit script around it.               *)
(*                                                                          *)
(* Numbers.  Python computes the score in floating point.  Here every       *)
(* number is an exact rational kept as an integer numerator:                *)
(*   - income_stability is the record [num, den], the ratio num/den;        *)
(*   - income_stability_score and score are numerators over that same den;  *)
(*   - a factor's impact is kept in hundredths of a point (round(x, 2));    *)
(*   - confidence is kept in tenths (round(x, 1));                          *)
(*   - random.random() returns r/RandDen for an integer r in 0..RandDen-1.  *)
(* round() is Python 3's: to nearest, ties to the even neighbour.           *)
(***************************************************************************)
EXTENDS Integers, Sequences, FiniteSets, TLC

(***************************************************************************)
(* Bounds of the model.                                                     *)
(***************************************************************************)
StabilityDen == 16
MaxBalances == 3
MaxAnomalous == 4
MaxAge == 16
RandDen == 256

(***************************************************************************)
(* Arithmetic helpers.                                                      *)
(***************************************************************************)
Min(a, b) == IF a < b THEN a ELSE b

Max(a, b) == IF a > b THEN a ELSE b

\* round(n / d) for d > 0: nearest integer, ties to even.
Round(n, d) ==
    LET q == n \div d
        m == n % d
    IN  IF 2 * m < d THEN q
        ELSE IF 2 * m > d THEN q + 1
        ELSE IF q % 2 = 0 THEN q ELSE q + 1

RECURSIVE Sum(_)
Sum(s) == IF s = <<>> THEN 0 ELSE Head(s) + Sum(Tail(s))

(***************************************************************************)
(* get_sample_data: the five fixtures.                                      *)
(***************************************************************************)
get_sample_data ==
    << [country |-> "Colombia", currency |-> "COP", bank_name |-> "Banco de Bogota",
        balances |-> <<2500000, 2200000, 1800000>>, avg_income |-> 1500000,
        anomalous_transactions |-> 1, risk_country |-> FALSE,
        income_stability |-> [num |-> 85, den |-> 100], account_age_months |-> 24],
       [country |-> "Mexico", currency |-> "MXN", bank_name |-> "BBVA Mexico",
        balances |-> <<45000, 42000, 38000>>, avg_income |-> 28000,
        anomalous_transactions |-> 0, risk_country |-> FALSE,
        income_stability |-> [num |-> 92, den |-> 100], account_age_months |-> 18],
       [country |-> "Argentina", currency |-> "ARS", bank_name |-> "Banco Santander",
        balances |-> <<850000, 720000, 650000>>, avg_income |-> 480000,
        anomalous_transactions |-> 3, risk_country |-> TRUE,
        income_stability |-> [num |-> 65, den |-> 100], account_age_months |-> 12],
       [country |-> "Brasil", currency |-> "BRL", bank_name |-> "Itau Unibanco",
        balances |-> <<8500, 9200, 8800>>, avg_income |-> 5500,
        anomalous_transactions |-> 0, risk_country |-> FALSE,
        income_stability |-> [num |-> 88, den |-> 100], account_age_months |-> 36],
       [country |-> "Peru", currency |-> "PEN", bank_name |-> "BCP",
        balances |-> <<12000, 11500, 10800>>, avg_income |-> 3200,
        anomalous_transactions |-> 2, risk_country |-> FALSE,
        income_stability |-> [num |-> 75, den |-> 100], account_age_months |-> 15] >>

(***************************************************************************)
(* calculate_credit_score.  Each factor block of the function is an         *)
(* operator from the applicant and the frame f (the locals assigned so far, *)
(* score and factors among them) to the frame after the block.              *)
(***************************************************************************)
\* Factor: Estabilidad de ingresos (0-200 puntos)
IncomeStabilityFactor(data, f) ==
    LET num == data.income_stability.num
        den == data.income_stability.den
        income_stability_score == num * 200
    IN  [income_stability_score |-> income_stability_score,
         score |-> f.score + income_stability_score,
         factors |-> Append(f.factors,
            [factor |-> "Estabilidad de Ingresos",
             impact |-> Round(100 * income_stability_score, den),
             positive |-> 10 * num > 7 * den])] @@ f

\* BalanceTrendFactor with >= for >: flat balances count as improving.
BalanceTrendFactor_FlatImproves(data, f) ==
    LET balances == data.balances
        balance_trend == IF balances[1] >= balances[Len(balances)] THEN 30 ELSE -50
    IN  [balance_trend |-> balance_trend,
         score |-> f.score + balance_trend * data.income_stability.den,
         factors |-> Append(f.factors,
            [factor |-> "Tendencia de Saldos",
             impact |-> 100 * balance_trend,
             positive |-> balance_trend > 0])] @@ f

\* Factor: Tendencia de saldos
BalanceTrendFactor(data, f) ==
    LET balances == data.balances
        balance_trend == IF balances[1] > balances[Len(balances)] THEN 30 ELSE -50
    IN  [balance_trend |-> balance_trend,
         score |-> f.score + balance_trend * data.income_stability.den,
         factors |-> Append(f.factors,
            [factor |-> "Tendencia de Saldos",
             impact |-> 100 * balance_trend,
             positive |-> balance_trend > 0])] @@ f

\* AnomalousTransactionsFactor that reports the factor only when there are
\* anomalous transactions.
AnomalousTransactionsFactor_SkipsZero(data, f) ==
    LET anomaly_score == Max(-100, (-data.anomalous_transactions) * 30)
    IN  [anomaly_score |-> anomaly_score,
         score |-> f.score + anomaly_score * data.income_stability.den,
         factors |-> IF data.anomalous_transactions = 0 THEN f.factors
                     ELSE Append(f.factors,
                        [factor |-> "Transacciones Sospechosas",
                         impact |-> 100 * anomaly_score,
                         positive |-> data.anomalous_transactions <= 1])] @@ f

\* AnomalousTransactionsFactor without the floor max(-100, ...).
AnomalousTransactionsFactor_NoFloor(data, f) ==
    LET anomaly_score == (-data.anomalous_transactions) * 30
    IN  [anomaly_score |-> anomaly_score,
         score |-> f.score + anomaly_score * data.income_stability.den,
         factors |-> Append(f.factors,
            [factor |-> "Transacciones Sospechosas",
             impact |-> 100 * anomaly_score,
             positive |-> data.anomalous_transactions <= 1])] @@ f

\* Factor: Transacciones anomalas
AnomalousTransactionsFactor(data, f) ==
    LET anomaly_score == Max(-100, (-data.anomalous_transactions) * 30)
    IN  [anomaly_score |-> anomaly_score,
         score |-> f.score + anomaly_score * data.income_stability.den,
         factors |-> Append(f.factors,
            [factor |-> "Transacciones Sospechosas",
             impact |-> 100 * anomaly_score,
             positive |-> data.anomalous_transactions <= 1])] @@ f

\* Factor: Riesgo pais
CountryRiskFactor(data, f) ==
    LET country_score == IF data.risk_country THEN -40 ELSE 20
    IN  [country_score |-> country_score,
         score |-> f.score + country_score * data.income_stability.den,
         factors |-> Append(f.factors,
            [factor |-> "Riesgo Pais",
             impact |-> 100 * country_score,
             positive |-> ~data.risk_country])] @@ f

\* Factor: Capacidad de ahorro.  avg_balance = sum / len is compared with
\* the income exactly: sum > income * len.
SavingsCapacityFactor(data, f) ==
    LET sum_balances == Sum(data.balances)
        len_balances == Len(data.balances)
        ratio_score == IF sum_balances > data.avg_income * 2 * len_balances THEN 40
                       ELSE IF sum_balances > data.avg_income * len_balances THEN 20
                       ELSE -20
    IN  [ratio_score |-> ratio_score,
         score |-> f.score + ratio_score * data.income_stability.den,
         factors |-> Append(f.factors,
            [factor |-> "Capacidad de Ahorro",
             impact |-> 100 * ratio_score,
             positive |-> ratio_score > 0])] @@ f

\* AccountAgeFactor that reports the factor but leaves out score += age_score.
AccountAgeFactor_NotAdded(data, f) ==
    LET age_score == Min(30, data.account_age_months * 2)
    IN  [age_score |-> age_score,
         score |-> f.score,
         factors |-> Append(f.factors,
            [factor |-> "Antiguedad de Cuenta",
             impact |-> 100 * age_score,
             positive |-> data.account_age_months >= 12])] @@ f

\* AccountAgeFactor without the cap min(30, ...).
AccountAgeFactor_NoCap(data, f) ==
    LET age_score == data.account_age_months * 2
    IN  [age_score |-> age_score,
         score |-> f.score + age_score * data.income_stability.den,
         factors |-> Append(f.factors,
            [factor |-> "Antiguedad de Cuenta",
             impact |-> 100 * age_score,
             positive |-> data.account_age_months >= 12])] @@ f

\* Factor: Antiguedad de cuenta
AccountAgeFactor(data, f) ==
    LET age_score == Min(30, data.account_age_months * 2)
    IN  [age_score |-> age_score,
         score |-> f.score + age_score * data.income_stability.den,
         factors |-> Append(f.factors,
            [factor |-> "Antiguedad de Cuenta",
             impact |-> 100 * age_score,
             positive |-> data.account_age_months >= 12])] @@ f

\* final_score = max(300, min(850, round(score)))
FinalScore(score, den) == Max(300, Min(850, Round(score, den)))

\* Approved without the hard gate on anomalous transactions.
Approved_ScoreOnly(final_score, data) == final_score >= 600

\* approved = final_score >= 600 and data["anomalous_transactions"] <= 2
Approved(final_score, data) ==
    final_score >= 600 /\ data.anomalous_transactions <= 2

\* CreditLimit computed whether or not the applicant is approved.
CreditLimit_Unconditional(approved, final_score, data) ==
    LET base_limit == (final_score - 500) * 2
        income_multiplier == Min(data.avg_income * 3, 5000 * 10)
    IN  Round(base_limit * 10 + income_multiplier, 10)

\* The credit limit; min(avg_income * 0.3, 5000) is kept in tenths.
CreditLimit(approved, final_score, data) ==
    IF approved
    THEN LET base_limit == (final_score - 500) * 2
             income_multiplier == Min(data.avg_income * 3, 5000 * 10)
         IN  Round(base_limit * 10 + income_multiplier, 10)
    ELSE 0

\* Confidence with a jitter of 15 points instead of 10.
Confidence_Wide(r) == Round(85 * 10 * RandDen + r * 15 * 10, RandDen)

\* round(85 + random.random() * 10, 1), in tenths, for random.random() = r/RandDen
Confidence(r) == Round(85 * 10 * RandDen + r * 10 * 10, RandDen)

\* Decision in which the approval also asks for a confidence of 90 or more.
Decision_ConfidenceGated(data, f, r) ==
    LET final_score == FinalScore(f.score, data.income_stability.den)
        approved == Approved(final_score, data) /\ Confidence(r) >= 90 * 10
    IN  [final_score |-> final_score,
         approved |-> approved,
         recommendation |-> IF approved THEN "APROBADO" ELSE "RECHAZADO",
         confidence |-> Confidence(r),
         credit_limit |-> CreditLimit(approved, final_score, data)] @@ f

\* The end of the function: final score, approval, credit limit and the
\* keys of the returned dict.
Decision(data, f, r) ==
    LET final_score == FinalScore(f.score, data.income_stability.den)
        approved == Approved(final_score, data)
    IN  [final_score |-> final_score,
         approved |-> approved,
         recommendation |-> IF approved THEN "APROBADO" ELSE "RECHAZADO",
         confidence |-> Confidence(r),
         credit_limit |-> CreditLimit(approved, final_score, data)] @@ f

\* calculate_credit_score(data), with r/RandDen the value random.random()
\* returns in this call.  The result is the function's frame at the return:
\* the six deltas, score and final_score, and the five keys of the returned
\* dict.
calculate_credit_score(data, r) ==
    Decision(data,
        AccountAgeFactor(data,
        SavingsCapacityFactor(data,
        CountryRiskFactor(data,
        AnomalousTransactionsFactor(data,
        BalanceTrendFactor(data,
        IncomeStabilityFactor(data,
            [score |-> 500 * data.income_stability.den, factors |-> <<>>])))))),
        r)

\* The dict calculate_credit_score returns.
Returned(frame) ==
    [approved |-> frame.approved,
     factors |-> frame.factors,
     recommendation |-> frame.recommendation,
     confidence |-> frame.confidence,
     credit_limit |-> frame.credit_limit]

(***************************************************************************)
(* Inputs.                                                                  *)
(***************************************************************************)
\* Values of random.random(), as numerators over RandDen: both ends of
\* [0, 1) and a tie of the rounding to one decimal.
RandomValues == {0, RandDen \div 8, RandDen - 1}

StabilityNums ==
    {0, 1, (3 * StabilityDen) \div 8, (7 * StabilityDen) \div 10,
     (7 * StabilityDen) \div 10 + 1, StabilityDen}

BalanceValues == {30000, 40000}

BalanceSeqs == UNION {[1..n -> BalanceValues] : n \in 1..MaxBalances}

IncomeValues == {1, 5, 16667, 40000}

AgeValues == {0, 2, 12, MaxAge}

\* Applicants satisfying the data-model constraints.
Applicants ==
    [balances : BalanceSeqs,
     avg_income : IncomeValues,
     anomalous_transactions : 0..MaxAnomalous,
     risk_country : BOOLEAN,
     income_stability : [num : StabilityNums, den : {StabilityDen}],
     account_age_months : AgeValues]

SampleData == {get_sample_data[i] : i \in 1..Len(get_sample_data)}

(***************************************************************************)
(* The Streamlit script (module level of src/main.py).  One run of the      *)
(* script is one evaluation of Script; st.session_state is a function from   *)
(* the keys that are set to their values.                                    *)
(***************************************************************************)
Aleatorio == <<"Aleatorio">>

\* f"{data['country']} ({data['currency']})"
Label(d) == <<d.country, d.currency>>

\* The options of the selectbox "Simular usuario de:".
Options == {Aleatorio} \cup {Label(get_sample_data[i]) : i \in 1..Len(get_sample_data)}

\* selected_country.split(" (")[0]
CountryName(label) == label[1]

hasattr(session, key) == key \in DOMAIN session

SetKey(session, key, value) ==
    [k \in DOMAIN session \cup {key} |-> IF k = key THEN value ELSE session[k]]

EmptySession == [k \in {} |-> TRUE]

\* user_data of the simulation block: random.choice(sample_data) is
\* sample_data[choice]; next(...) is the first fixture of that country.
SelectUserData(selected, choice) ==
    LET sample_data == get_sample_data
    IN  IF selected = Aleatorio
        THEN sample_data[choice]
        ELSE LET country_name == CountryName(selected)
                 matching == {i \in 1..Len(sample_data) :
                                 sample_data[i].country = country_name}
                 first == CHOOSE i \in matching : \A j \in matching : i <= j
             IN  sample_data[first]

\* Script whose reset deletes only the start_simulation key.
Script_ResetFlagOnly(session, iniciar, nueva, selected, choice, r) ==
    LET s1 == IF iniciar THEN SetKey(session, "start_simulation", TRUE) ELSE session
        simulate == hasattr(s1, "start_simulation") /\ s1["start_simulation"]
        user_data == SelectUserData(selected, choice)
        scoring_result == Returned(calculate_credit_score(user_data, r))
        s2 == IF simulate
              THEN SetKey(SetKey(s1, "scoring_result", scoring_result),
                          "user_data", user_data)
              ELSE s1
        reset == hasattr(s2, "start_simulation") /\ nueva
    IN  [session |-> IF reset
                     THEN [k \in DOMAIN s2 \ {"start_simulation"} |-> s2[k]]
                     ELSE s2,
         rerun |-> reset]

\* One run of the script.  iniciar and nueva tell whether the button was
\* clicked for this run, selected is the selectbox's value, choice and r are
\* what random.choice and random.random return if they are called.
\* The result is the session state the run leaves and whether it ended in
\* st.rerun().
Script(session, iniciar, nueva, selected, choice, r) ==
    LET s1 == IF iniciar THEN SetKey(session, "start_simulation", TRUE) ELSE session
        simulate == hasattr(s1, "start_simulation") /\ s1["start_simulation"]
        user_data == SelectUserData(selected, choice)
        scoring_result == Returned(calculate_credit_score(user_data, r))
        s2 == IF simulate
              THEN SetKey(SetKey(s1, "scoring_result", scoring_result),
                          "user_data", user_data)
              ELSE s1
        reset == hasattr(s2, "start_simulation") /\ nueva
    IN  [session |-> IF reset THEN EmptySession ELSE s2,
         rerun |-> reset]

VARIABLES data, calls, session_state, selected_country, interaction

vars == <<data, calls, session_state, selected_country, interaction>>

appVars == <<session_state, selected_country, interaction>>

scoreVars == <<data, calls>>

AppIdle ==
    /\ session_state = EmptySession
    /\ selected_country = Aleatorio
    /\ interaction = [event |-> "load", choice |-> 1, r |-> 0]

(***************************************************************************)
(* The scoring function on its own: data is the applicant, calls the        *)
(* frames of the last two calls of calculate_credit_score(data).            *)
(***************************************************************************)
InitScore ==
    /\ data \in Applicants \cup SampleData
    /\ calls = <<>>
    /\ AppIdle

Call(r) ==
    /\ calls' = IF Len(calls) < 2
                THEN Append(calls, calculate_credit_score(data, r))
                ELSE <<calls[2], calculate_credit_score(data, r)>>
    /\ UNCHANGED <<data, appVars>>

NextScore == \E r \in RandomValues : Call(r)

SpecScore == InitScore /\ [][NextScore]_vars

(***************************************************************************)
(* The application: the state after the first page load, then one step per  *)
(* user interaction, each of which runs the script to its end (and once     *)
(* more when the run ends in st.rerun()).  interaction records the          *)
(* interaction and what the random source returned in its run.              *)
(***************************************************************************)
InitApp ==
    /\ AppIdle
    /\ data = get_sample_data[1]
    /\ calls = <<>>

Choices == 1..Len(get_sample_data)

\* The runs one interaction causes.
Runs(iniciar, nueva, selected, choice, r, choice2, r2) ==
    LET run == Script(session_state, iniciar, nueva, selected, choice, r)
    IN  IF run.rerun
        THEN Script(run.session, FALSE, FALSE, selected, choice2, r2).session
        ELSE run.session

\* Click on "Iniciar Simulacion".
ClickIniciar ==
    \E choice \in Choices, r \in RandomValues :
        /\ session_state' = Runs(TRUE, FALSE, selected_country, choice, r, choice, r)
        /\ interaction' = [event |-> "iniciar", choice |-> choice, r |-> r]
        /\ UNCHANGED <<selected_country, scoreVars>>

\* Another widget changes (the selectbox, or a text input when c is the
\* current option): the script reruns with no button clicked.
ChangeWidget ==
    \E c \in Options, choice \in Choices, r \in RandomValues :
        /\ selected_country' = c
        /\ session_state' = Runs(FALSE, FALSE, c, choice, r, choice, r)
        /\ interaction' = [event |-> "widget", choice |-> choice, r |-> r]
        /\ UNCHANGED scoreVars

\* Click on "Nueva Simulacion", which the last run rendered only if
\* start_simulation was set.
ClickNueva ==
    /\ hasattr(session_state, "start_simulation")
    /\ \E choice \in Choices, r \in RandomValues,
          choice2 \in Choices, r2 \in RandomValues :
        /\ session_state' = Runs(FALSE, TRUE, selected_country, choice, r, choice2, r2)
        /\ interaction' = [event |-> "nueva", choice |-> choice, r |-> r]
        /\ UNCHANGED <<selected_country, scoreVars>>

NextApp == ClickIniciar \/ ChangeWidget \/ ClickNueva

SpecApp == InitApp /\ [][NextApp]_vars

(***************************************************************************)
(* Properties of calculate_credit_score, under SpecScore.                   *)
(***************************************************************************)
Called == 1..Len(calls)

DataDen == data.income_stability.den

\* C1: approved is true if and only if final_score >= 600 and
\* anomalous_transactions <= 2; in particular three or more anomalous
\* transactions are always rejected, final_score 599 is rejected, and
\* final_score 600 with two anomalous transactions is approved.
C1_ApprovalRule ==
    \A i \in Called :
        /\ calls[i].approved <=>
              (calls[i].final_score >= 600 /\ data.anomalous_transactions <= 2)
        /\ data.anomalous_transactions >= 3 => ~calls[i].approved
        /\ calls[i].final_score = 599 => ~calls[i].approved
        /\ (calls[i].final_score = 600 /\ data.anomalous_transactions = 2)
              => calls[i].approved

\* The otherwise-maximal applicant with three anomalous transactions: the
\* score clears 600 and the applicant is rejected.
C1_Witness ==
    /\ Len(calls) > 0
    /\ data.anomalous_transactions = 3
    /\ data.income_stability.num = data.income_stability.den
    /\ ~data.risk_country
    /\ calls[1].balance_trend = 30
    /\ calls[1].ratio_score = 40
    /\ calls[1].age_score = 30
    /\ calls[1].final_score >= 600
    /\ ~calls[1].approved

\* C2: credit_limit is 0 whenever approved is false, and credit_limit >= 0
\* always.
C2_CreditLimitZeroUnlessApproved ==
    \A i \in Called :
        /\ ~calls[i].approved => calls[i].credit_limit = 0
        /\ calls[i].credit_limit >= 0

\* An applicant whose score clears 600 and who is rejected by the gate.
C2_Witness ==
    /\ Len(calls) > 0
    /\ calls[1].final_score >= 600
    /\ ~calls[1].approved
    /\ calls[1].credit_limit = 0

\* C3: the pre-clamp score is 500 plus the sum of the six factor deltas, and
\* the final score, its rounding clamped, lies in [300, 850].
C3_ScoreIsBasePlusDeltas ==
    \A i \in Called :
        /\ calls[i].score =
              500 * DataDen + calls[i].income_stability_score
              + DataDen * (calls[i].balance_trend + calls[i].anomaly_score
                       + calls[i].country_score + calls[i].ratio_score
                       + calls[i].age_score)
        /\ calls[i].final_score \in 300..850
        /\ calls[i].final_score = Max(300, Min(850, Round(calls[i].score, DataDen)))

\* A call in which the lower clamp acts on a score with a non-zero age delta.
C3_Witness ==
    /\ Len(calls) > 0
    /\ Round(calls[1].score, DataDen) < 300
    /\ calls[1].final_score = 300
    /\ calls[1].age_score > 0
    /\ calls[1].anomaly_score = -100

FactorNames ==
    << "Estabilidad de Ingresos", "Tendencia de Saldos", "Transacciones Sospechosas",
       "Riesgo Pais", "Capacidad de Ahorro", "Antiguedad de Cuenta" >>

\* C4: the factors list has exactly 6 entries, in the order income
\* stability, balance trend, anomalous transactions, country risk, savings
\* capacity, account age.
C4_SixFactorsInOrder ==
    \A i \in Called :
        /\ Len(calls[i].factors) = 6
        /\ [j \in 1..6 |-> calls[i].factors[j].factor] = FactorNames

\* A call with zero deltas: no income stability, no anomalous transaction,
\* a new account.
C4_Witness ==
    /\ Len(calls) > 0
    /\ data.income_stability.num = 0
    /\ data.anomalous_transactions = 0
    /\ data.account_age_months = 0
    /\ Len(calls[1].factors) = 6

\* C5: two calls with the same applicant yield the same approved, factors,
\* recommendation and credit_limit, whatever the random source returns.
C5_SameDecisionTwice ==
    Len(calls) = 2 =>
        /\ calls[1].approved = calls[2].approved
        /\ calls[1].factors = calls[2].factors
        /\ calls[1].recommendation = calls[2].recommendation
        /\ calls[1].credit_limit = calls[2].credit_limit

\* Two calls that approve and whose confidence differs.
C5_Witness ==
    /\ Len(calls) = 2
    /\ calls[1].confidence < 90 * 10
    /\ calls[2].confidence >= 90 * 10
    /\ calls[1].approved
    /\ calls[2].credit_limit > 0

\* C6 as claimed: confidence is >= 85 and strictly less than 95.
C6_ConfidenceBelow95 ==
    \A i \in Called :
        calls[i].confidence >= 85 * 10 /\ calls[i].confidence < 95 * 10

\* C6, amended: confidence is >= 85 and at most 95; the rounding to one
\* decimal yields 95.0 for the largest values of the random source.
C6_ConfidenceAtMost95 ==
    \A i \in Called :
        calls[i].confidence >= 85 * 10 /\ calls[i].confidence <= 95 * 10

\* A call that returns the confidence 95.0.
C6_Witness ==
    /\ Len(calls) > 0
    /\ calls[1].confidence = 95 * 10

Mexico == get_sample_data[2]

\* C7: for the Mexico fixture the deltas are 184, +30, 0, +20, +20 (mean
\* balance above avg_income, not above twice avg_income) and +30; they sum
\* to 284, the final score is 784 and the applicant is approved.
C7_MexicoFixture ==
    \A i \in Called :
        data = Mexico =>
            /\ calls[i].income_stability_score = 184 * DataDen
            /\ calls[i].balance_trend = 30
            /\ calls[i].anomaly_score = 0
            /\ calls[i].country_score = 20
            /\ calls[i].ratio_score = 20
            /\ Sum(data.balances) > data.avg_income * Len(data.balances)
            /\ ~(Sum(data.balances) > 2 * data.avg_income * Len(data.balances))
            /\ calls[i].age_score = 30
            /\ calls[i].score = (500 + 284) * DataDen
            /\ calls[i].final_score = 784
            /\ calls[i].approved
            /\ [j \in 1..6 |-> calls[i].factors[j].impact]
                  = <<18400, 3000, 0, 2000, 2000, 3000>>

\* The Mexico fixture has been scored.
C7_Witness ==
    /\ Len(calls) > 0
    /\ data = Mexico
    /\ calls[1].final_score = 784

\* The balance-trend delta of the applicant with balance j replaced by v.
TrendWith(j, v) ==
    BalanceTrendFactor([data EXCEPT !.balances[j] = v],
                       [score |-> 0, factors |-> <<>>]).balance_trend

\* C8: the balance-trend delta is +30 exactly when balances[0] >
\* balances[last] and -50 otherwise (flat and single-element balances
\* included), positive is true exactly when +30 was applied, and changing an
\* intermediate balance never changes the delta.
C8_BalanceTrend ==
    \A i \in Called :
        LET b == data.balances
            improving == b[1] > b[Len(b)]
        IN  /\ calls[i].balance_trend = (IF improving THEN 30 ELSE -50)
            /\ calls[i].factors[2].impact = 100 * calls[i].balance_trend
            /\ calls[i].factors[2].positive <=> (calls[i].balance_trend = 30)
            /\ Len(b) = 1 => calls[i].balance_trend = -50
            /\ \A j \in 2..(Len(b) - 1), v \in BalanceValues :
                  TrendWith(j, v) = calls[i].balance_trend

\* Flat first and last balances around a higher intermediate one: -50.
C8_Witness ==
    /\ Len(calls) > 0
    /\ Len(data.balances) = 3
    /\ data.balances[1] = data.balances[3]
    /\ data.balances[2] > data.balances[1]
    /\ calls[1].balance_trend = -50
    /\ ~calls[1].factors[2].positive

\* C9: the pre-clamp score lies in [290, 820]; so final_score <= 820, the
\* lower clamp acts only on pre-clamp scores from 290 up to 300, and an
\* approved applicant's credit_limit is at least 200 and at most 5640.
C9_ScoreAndLimitRange ==
    \A i \in Called :
        /\ calls[i].score >= 290 * DataDen
        /\ calls[i].score <= 820 * DataDen
        /\ calls[i].final_score <= 820
        /\ calls[i].final_score # Round(calls[i].score, DataDen)
              => (calls[i].final_score = 300 /\ calls[i].score < 300 * DataDen)
        /\ calls[i].approved =>
              (calls[i].credit_limit >= 200 /\ calls[i].credit_limit <= 5640)

\* The highest score there is, 820, approved with the highest limit, 5640.
C9_Witness ==
    /\ Len(calls) > 0
    /\ calls[1].score = 820 * DataDen
    /\ calls[1].final_score = 820
    /\ calls[1].approved
    /\ calls[1].credit_limit = 5640

(***************************************************************************)
(* Properties of the application, under SpecApp.                            *)
(***************************************************************************)
SessionConsistent ==
    /\ hasattr(session_state, "scoring_result") <=> hasattr(session_state, "start_simulation")
    /\ hasattr(session_state, "user_data") <=> hasattr(session_state, "start_simulation")
    /\ hasattr(session_state, "scoring_result") =>
          session_state["scoring_result"] =
              Returned(calculate_credit_score(session_state["user_data"], interaction.r))
    /\ interaction.event = "nueva" => DOMAIN session_state = {}

RerunRecomputes ==
    (hasattr(session_state, "start_simulation") /\ interaction'.event # "nueva") =>
        /\ hasattr(session_state', "user_data")
        /\ hasattr(session_state', "scoring_result")
        /\ session_state'["user_data"] =
              SelectUserData(selected_country', interaction'.choice)
        /\ session_state'["scoring_result"] =
              Returned(calculate_credit_score(session_state'["user_data"], interaction'.r))

\* C10: after every completed run the session state holds scoring_result
\* and user_data if and only if it holds start_simulation, and the stored
\* scoring_result is the decision computed from the stored user_data; a
\* click on "Nueva Simulacion" leaves none of the three keys; and while
\* start_simulation is set every rerun recomputes and overwrites
\* scoring_result and user_data together.
C10_SessionState == []SessionConsistent /\ [][RerunRecomputes]_vars

\* A rerun caused by the selectbox, with the simulation started: the stored
\* data and result are those of the newly selected country.
C10_Witness ==
    /\ interaction.event = "widget"
    /\ hasattr(session_state, "start_simulation")
    /\ selected_country = Label(Mexico)
    /\ session_state["user_data"] = Mexico
    /\ session_state["scoring_result"].approved

====
